---- MODULE Spec2Model ----
(***************************************************************************)
(* split-dwarf ("sd"): reads a Mach-O executable with macho.NewFile, then   *)
(* main builds a new table of contents of type dSYM, lays out __LINKEDIT    *)
(* (symbols, strings) and the uncompressed __DWARF, fills one byte buffer   *)
(* and writes it.  The model follows src/sd.go statement by statement: one  *)
(* action per block of main and per step of NewFile's load-command loop.    *)
(*                                                                         *)
(* Representation.                                                         *)
(*  - A byte is an integer 0..255; a string (symbol or section name) is a   *)
(*    sequence of bytes; segment names, which the program only compares,    *)
(*    are TLA+ strings.                                                     *)
(*  - The magic number is the tuple of its four bytes, most significant     *)
(*    first (0xfeedface does not fit TLC's integers).  A load-command       *)
(*    opcode is <<bit 31, low 31 bits>>.  All other integers stay far below *)
(*    2^31, so no uint32/uint64 operation of the modelled runs wraps.       *)
(*  - Load commands are objects with identity: heap[id].  exem.Loads and    *)
(*    newtoc.Loads are sequences of ids, so that a pointer shared between   *)
(*    the source and the new TOC is one object, as in the program.          *)
(*  - The output buffer is its length and the log of the writes made to it; *)
(*    the byte at an offset is the one of the last write covering it, and   *)
(*    0 (make's zero fill) when no write covers it.                         *)
(***************************************************************************)
EXTENDS Integers, Sequences, FiniteSets, TLC

VARIABLES
    infile,           \* the input file: ident bytes, header, load commands
    pc,               \* position in NewFile / main
    err,              \* NewFile's error result ("nil" or a FormatError)
    exem,             \* the File NewFile builds (header, Loads, Sections, Symtab, Dysymtab)
    heap,             \* load-command objects, by id
    dat,              \* NewFile: number of bytes left in the load-command block
    offset,           \* NewFile: file offset of the next command; main: write cursor
    cmdi,             \* NewFile: index of the load command being parsed
    newtoc,           \* main: the new table of contents
    uuid, symtab, dysymtab, text, data, linkedit, pagezero, dwarf,
                      \* main: pointers into the source (ids, 0 is nil)
    newtext, newdata, newsymtab, newlinkedit, newdwarf,
                      \* main: pointers to the new load commands (ids)
    linkeditsyms, linkeditstrings, linkeditstringbase, linkeditstringcur,
    i,                \* main: loop index of the symbol loop and of the DWARF loop
    buffer,           \* main: the output buffer
    diag,             \* what the run printed when it stopped
    exitcode,         \* process exit code (-1 while running)
    dirmade,          \* os.MkdirAll has created the output directory
    written           \* ioutil.WriteFile has written the output file

nfVars   == <<dat, cmdi>>
srcPtrs  == <<uuid, symtab, dysymtab, text, data, linkedit, pagezero, dwarf>>
newPtrs  == <<newtext, newdata, newsymtab, newlinkedit, newdwarf>>
leVars   == <<linkeditsyms, linkeditstrings, linkeditstringbase, linkeditstringcur>>
outVars  == <<diag, exitcode, dirmade, written>>
vars     == <<infile, pc, err, exem, heap, dat, offset, cmdi, newtoc,
              uuid, symtab, dysymtab, text, data, linkedit, pagezero, dwarf,
              newtext, newdata, newsymtab, newlinkedit, newdwarf,
              linkeditsyms, linkeditstrings, linkeditstringbase, linkeditstringcur,
              i, buffer, diag, exitcode, dirmade, written>>

(***************************************************************************)
(* Program constants                                                        *)
(***************************************************************************)
pageAlign == 12
fileHeaderSize32 == 28
fileHeaderSize64 == 32

Magic32  == <<254, 237, 250, 206>>     \* 0xfeedface
Magic64  == <<254, 237, 250, 207>>     \* 0xfeedfacf
MagicFat == <<202, 254, 186, 190>>     \* 0xcafebabe

TypeExec == 2
TypeDsym == 10

LoadCmdSegment   == <<0, 1>>
LoadCmdSymtab    == <<0, 2>>
LoadCmdDysymtab  == <<0, 11>>
LoadCmdDylib     == <<0, 12>>
LoadCmdSegment64 == <<0, 25>>
LoadCmdUuid      == <<0, 27>>
LoadCmdZero      == <<0, 0>>           \* the zero value of a LoadCmd field

\* unsafe.Sizeof of the wire structs
SizeofSegment32   == 56
SizeofSegment64   == 72
SizeofSection32   == 68
SizeofSection64   == 80
SizeofSymtabCmd   == 24
SizeofDysymtabCmd == 80
SizeofDylibCmd    == 24
SizeofNlist32     == 12
SizeofNlist64     == 16

BigEndian    == "BigEndian"
LittleEndian == "LittleEndian"

NoErr == [msg |-> "nil"]
Nil   == 0

(***************************************************************************)
(* Small helpers                                                            *)
(***************************************************************************)
Pow2(n) == 2 ^ n

Reverse(s) == [k \in 1..Len(s) |-> s[Len(s) + 1 - k]]

\* the sum of a sequence of numbers, by halves
SeqSum(s) ==
    LET RECURSIVE Go(_, _)
        Go(lo, hi) == IF lo > hi THEN 0
                      ELSE IF lo = hi THEN s[lo]
                      ELSE Go(lo, (lo + hi) \div 2) + Go((lo + hi) \div 2 + 1, hi)
    IN Go(1, Len(s))

\* the concatenation of a sequence of sequences, by halves
Flatten(ss) ==
    LET RECURSIVE Go(_, _)
        Go(lo, hi) == IF lo > hi THEN << >>
                      ELSE IF lo = hi THEN ss[lo]
                      ELSE Go(lo, (lo + hi) \div 2) \o Go((lo + hi) \div 2 + 1, hi)
    IN Go(1, Len(ss))

SetMin(S) == CHOOSE x \in S : \A y \in S : x <= y

SetMax(S) == CHOOSE x \in S : \A y \in S : x >= y

HasPrefix(s, p) == Len(s) >= Len(p) /\ SubSeq(s, 1, Len(p)) = p

\* the bytes of "__z"
PrefixZ == <<95, 95, 122>>

\* x &^ 1 on a 4-byte magic: clear the lowest bit of the least significant byte
AndNot1(m) == [m EXCEPT ![4] = m[4] - (m[4] % 2)]

\* roundup without its mask: the sum is returned as it is
roundup_unmasked(x, align) == x + align - 1

\* roundup(x, align) = (x + align - 1) & -align; every call passes a power of two,
\* for which the mask clears the bits below align
roundup(x, align) == (x + align - 1) - ((x + align - 1) % align)

\* cstring(b[n:]): the bytes of b after the first n, up to the first 0 or the end
cstring(b, n) ==
    LET zs == {k \in (n + 1)..Len(b) : b[k] = 0}
    IN IF zs = {} THEN SubSeq(b, n + 1, Len(b)) ELSE SubSeq(b, n + 1, SetMin(zs) - 1)

(***************************************************************************)
(* Input files.  A file is its four ident bytes, the header fields as they  *)
(* decode in the file's byte order, and the load commands in file order,    *)
(* each with its declared length siz and the fields of its wire struct.     *)
(* The data a command points to (string table, symbol array, the first      *)
(* bytes of a section's payload) is kept with the command.                  *)
(***************************************************************************)
BigNameLen    == 4078     \* length of the long symbol name (fills a page)
MaxRange      == 3        \* Iextdefsym and Nextdefsym are drawn from 0..MaxRange
MaxUuids      == 2        \* uuid load commands in the source
MaxTextSects  == 2        \* sections of the source __TEXT
ManySyms      == 257      \* symbols of the large symbol table (more than a page of entries)

\* bytes of the names used
N_text         == <<95, 95, 116, 101, 120, 116>>                                    \* "__text"
N_stubs        == <<95, 95, 115, 116, 117, 98, 115>>                                \* "__stubs"
N_data         == <<95, 95, 100, 97, 116, 97>>                                      \* "__data"
N_debug_line   == <<95, 95, 100, 101, 98, 117, 103, 95, 108, 105, 110, 101>>        \* "__debug_line"
N_debug_info   == <<95, 95, 100, 101, 98, 117, 103, 95, 105, 110, 102, 111>>        \* "__debug_info"
N_zdebug_info  == <<95, 95, 122, 100, 101, 98, 117, 103, 95, 105, 110, 102, 111>>   \* "__zdebug_info"
N_zdebug_abbr  == <<95, 95, 122, 100, 101, 98, 117, 103, 95, 97, 98, 98, 114>>      \* "__zdebug_abbr"
N_main         == <<95, 109, 97, 105, 110>>                                         \* "_main"
N_x            == <<95, 120>>                                                       \* "_x"
N_a            == <<95, 97>>                                                        \* "_a"
N_lib          == <<47, 108>>                                                       \* "/l"
LongName       == [k \in 1..BigNameLen |-> 97]                                      \* "aaa...a"

ZLIB == <<90, 76, 73, 66>>                                                          \* "ZLIB"

\* the 8 big-endian bytes of n (n < 2^16 in every input)
BE64(n) == <<0, 0, 0, 0, 0, 0, n \div 256, n % 256>>

\* a section of the file; head holds the first min(Size, 12) bytes of its payload,
\* fill stands for every payload byte after them (and for the inflated bytes)
WSect(name, seg, size, head, fill) ==
    [Name |-> name, Seg |-> seg, Addr |-> 4096, Size |-> size, Offset |-> 8192,
     Align |-> 4, Reloff |-> 0, Nreloc |-> 0, Flags |-> 1,
     Reserve1 |-> 5, Reserve2 |-> 6, Reserve3 |-> 7, head |-> head, fill |-> fill]

PlainHead(size, fill) == [k \in 1..(IF size < 12 THEN size ELSE 12) |-> fill]

\* DWARF section lists
DwarfDefault == << WSect(N_debug_line, "__DWARF", 40, PlainHead(40, 221), 221),
                   WSect(N_zdebug_info, "__DWARF", 200, ZLIB \o BE64(5000), 238) >>
DwarfVariants ==
    { DwarfDefault,
      << >>,
      << WSect(N_zdebug_abbr, "__DWARF", 50, PlainHead(50, 204), 204) >>,
      << WSect(N_zdebug_info, "__DWARF", 8, PlainHead(8, 204), 204) >>,
      << WSect(PrefixZ, "__DWARF", 300, ZLIB \o BE64(100), 238),
         WSect(N_debug_info, "__DWARF", 20, ZLIB \o BE64(900), 221) >>,
      << WSect(N_debug_info, "__DWARF", 2, PlainHead(2, 221), 221) >> }

TextSects(n) == SubSeq(<< WSect(N_text, "__TEXT", 100, PlainHead(100, 144), 144),
                          WSect(N_stubs, "__TEXT", 12, PlainHead(12, 255), 255),
                          WSect(N_text, "__TEXT", 30, PlainHead(30, 144), 144) >>, 1, n)
DataSects == << WSect(N_data, "__DATA", 16, PlainHead(16, 1), 1) >>

\* a segment command; opcode and lengths follow the file's bitness
WSeg(is64, name, addr, memsz, off, filesz, sects) ==
    [cmd |-> IF is64 THEN LoadCmdSegment64 ELSE LoadCmdSegment,
     siz |-> IF is64 THEN SizeofSegment64 + Len(sects) * SizeofSection64
                     ELSE SizeofSegment32 + Len(sects) * SizeofSection32,
     Name |-> name, Addr |-> addr, Memsz |-> memsz, Offset |-> off, Filesz |-> filesz,
     Maxprot |-> 7, Prot |-> 5, Nsect |-> Len(sects), Flag |-> 0, sects |-> sects]

\* the string table of a symbol array: " ", 0, then each name and its 0
StrtabOf(names) == <<32, 0>> \o Flatten([k \in 1..Len(names) |-> names[k] \o <<0>>])

NameOffset(names, k) == 2 + SeqSum([j \in 1..(k - 1) |-> Len(names[j]) + 1])

WNlist(names, k) ==
    [Name |-> NameOffset(names, k), Type |-> 14 + (k % 2), Sect |-> 1 + (k % 3),
     Desc |-> 16 * k, Value |-> 4096 + 32 * k]

WSymtab(names) ==
    [cmd |-> LoadCmdSymtab, siz |-> SizeofSymtabCmd,
     Symoff |-> 12288, Nsyms |-> Len(names),
     Stroff |-> 12288 + 16 * Len(names), Strsize |-> Len(StrtabOf(names)),
     strtab |-> StrtabOf(names),
     symdat |-> [k \in 1..Len(names) |-> WNlist(names, k)]]

WDysymtab(iext, next) ==
    [cmd |-> LoadCmdDysymtab, siz |-> SizeofDysymtabCmd,
     Ilocalsym |-> 0, Nlocalsym |-> iext, Iextdefsym |-> iext, Nextdefsym |-> next,
     Iundefsym |-> iext + next, Nundefsym |-> 0,
     Indirectsymoff |-> 0, Nindirectsyms |-> 0]

WUuid(k) == [cmd |-> LoadCmdUuid, siz |-> 24, raw |-> k]

\* LC_LOAD_DYLIB naming "/l": 24 bytes of DylibCmd, the name, padding to the load alignment
WDylib(is64) ==
    [cmd |-> LoadCmdDylib, siz |-> IF is64 THEN 32 ELSE 28, NameOff |-> SizeofDylibCmd,
     Time |-> 2, CurrentVersion |-> 3, CompatVersion |-> 1,
     body |-> [k \in 1..((IF is64 THEN 32 ELSE 28) - SizeofDylibCmd) |->
                  IF k <= Len(N_lib) THEN N_lib[k] ELSE 0]]

\* symbol scenarios: the names of the source symbols and the dysymtab range
SymDefault == [names |-> <<N_a, N_main, N_x>>, iext |-> 1, next |-> 2]
SymVariants ==
    { [names |-> <<N_a, N_main, N_x>>, iext |-> a, next |-> n] : a, n \in 0..MaxRange }
    \cup { [names |-> << >>, iext |-> 0, next |-> n] : n \in 0..1 }
    \cup { [names |-> <<LongName>>, iext |-> 0, next |-> 1],
           [names |-> <<N_a, LongName>>, iext |-> 0, next |-> 2],
           [names |-> << << >>, N_x >>, iext |-> 0, next |-> 2],
           [names |-> [k \in 1..ManySyms |-> << >>], iext |-> 0, next |-> ManySyms] }

SegOrders ==
    { <<"__PAGEZERO", "__TEXT", "__DATA", "__LINKEDIT", "__DWARF">>,
      <<"__TEXT", "__DATA", "__LINKEDIT", "__DWARF", "__PAGEZERO">>,
      <<"__DWARF", "__DATA", "__PAGEZERO", "__LINKEDIT", "__TEXT">> }

Required == {"__TEXT", "__DATA", "__LINKEDIT", "__PAGEZERO", "__DWARF"}

ValidIdents == { Magic32, Magic64, Reverse(Magic32), Reverse(Magic64) }

\* every 4-byte prefix over the bytes of the magics, the fat magic in both orders, 0xdeadbeef
IdentBytes == {254, 237, 250, 206, 207}
AllIdents ==
    { <<a, b, c, d>> : a, b, c, d \in IdentBytes }
    \cup { MagicFat, Reverse(MagicFat), <<222, 173, 190, 239>> }

\* commands whose declared length, or whose string table, is not what their content
\* needs
WireVariants ==
    { "strtab cut to its head", "strtab cut in the last name", "symtab longer",
      "symtab shorter", "segment longer", "segment shorter", "dylib longer",
      "uuid of four bytes", "section of another segment" }

Rewire(v, w) ==
    CASE v = "strtab cut to its head" /\ w.cmd = LoadCmdSymtab ->
           [w EXCEPT !.Strsize = 2, !.strtab = SubSeq(@, 1, 2)]
      [] v = "strtab cut in the last name" /\ w.cmd = LoadCmdSymtab ->
           [w EXCEPT !.Strsize = @ - 1, !.strtab = SubSeq(@, 1, Len(@) - 1)]
      [] v = "symtab longer" /\ w.cmd = LoadCmdSymtab -> [w EXCEPT !.siz = @ + 8]
      [] v = "symtab shorter" /\ w.cmd = LoadCmdSymtab -> [w EXCEPT !.siz = @ - 8]
      [] v = "segment longer" /\ w.cmd \in {LoadCmdSegment, LoadCmdSegment64}
           /\ w.Name = "__DATA" -> [w EXCEPT !.siz = @ + 8]
      [] v = "segment shorter" /\ w.cmd \in {LoadCmdSegment, LoadCmdSegment64}
           /\ w.Name = "__DATA" -> [w EXCEPT !.siz = @ - 8]
      [] v = "dylib longer" /\ w.cmd = LoadCmdDylib ->
           [w EXCEPT !.siz = @ + 8, !.body = @ \o <<0, 0, 0, 0, 0, 0, 0, 0>>]
      [] v = "uuid of four bytes" /\ w.cmd = LoadCmdUuid -> [w EXCEPT !.siz = 4]
      [] v = "section of another segment" /\ w.cmd \in {LoadCmdSegment, LoadCmdSegment64}
           /\ w.Name = "__DATA" /\ w.Nsect > 0 -> [w EXCEPT !.sects[1].Seg = "__TEXT"]
      [] OTHER -> w

DefaultInput ==
    [ident |-> Reverse(Magic64), missing |-> "", tabs |-> "both", uuids |-> 1,
     order |-> <<"__PAGEZERO", "__TEXT", "__DATA", "__LINKEDIT", "__DWARF">>,
     dylib |-> FALSE, syms |-> SymDefault, dwarfv |-> DwarfDefault, textn |-> 1,
     hdr |-> "exact", wire |-> "exact"]

Deviations ==
    { <<"ident", v>> : v \in ValidIdents }
    \cup { <<"missing", v>> : v \in Required }
    \cup { <<"tabs", v>> : v \in {"nosymtab", "nodysymtab", "none"} }
    \cup { <<"uuids", v>> : v \in 0..MaxUuids }
    \cup { <<"order", v>> : v \in SegOrders }
    \cup { <<"dylib", TRUE>> }
    \cup { <<"syms", v>> : v \in SymVariants }
    \cup { <<"dwarfv", v>> : v \in DwarfVariants }
    \cup { <<"textn", v>> : v \in 0..MaxTextSects }
    \cup { <<"hdr", v>> : v \in {"one command more", "one command less", "block cut short"} }
    \cup { <<"wire", v>> : v \in WireVariants }

\* the inputs that differ from DefaultInput in one dimension, and in two
Deviate(cs) == cs \cup { [c EXCEPT ![d[1]] = d[2]] : c \in cs, d \in Deviations }
InputShapes == Deviate(Deviate({DefaultInput}))

Is64Ident(id) == id \in {Magic64, Reverse(Magic64)}

WSegNamed(c, name) ==
    LET is64 == Is64Ident(c.ident)
    IN CASE name = "__PAGEZERO" -> WSeg(is64, name, 0, 4096, 0, 0, << >>)
         [] name = "__TEXT"     -> WSeg(is64, name, 4096, 8192, 0, 8192, TextSects(c.textn))
         [] name = "__DATA"     -> WSeg(is64, name, 12288, 100, 8192, 100, DataSects)
         [] name = "__LINKEDIT" -> WSeg(is64, name, 16384, 4096, 12288, 600, << >>)
         [] name = "__DWARF"    -> WSeg(is64, name, 20480, 4096, 16384, 300, c.dwarfv)

SelectSeq2(s, Keep(_)) ==
    LET RECURSIVE Go(_)
        Go(k) == IF k = 0 THEN << >>
                 ELSE IF Keep(s[k]) THEN Append(Go(k - 1), s[k]) ELSE Go(k - 1)
    IN Go(Len(s))

MkCmds(c) ==
    LET is64 == Is64Ident(c.ident)
        Kept(n) == n # c.missing
        names == SelectSeq2(c.order, Kept)
    IN [k \in 1..Len(names) |-> WSegNamed(c, names[k])]
       \o (IF c.dylib THEN << WDylib(is64) >> ELSE << >>)
       \o (IF c.tabs \in {"both", "nodysymtab"} THEN << WSymtab(c.syms.names) >> ELSE << >>)
       \o (IF c.tabs \in {"both", "nosymtab"}
           THEN << WDysymtab(c.syms.iext, c.syms.next) >> ELSE << >>)
       \o [k \in 1..c.uuids |-> WUuid(k)]

\* the four bytes of v as a file with these ident bytes holds them
Wire32(ident, v) ==
    LET le == <<v % 256, (v \div 256) % 256, (v \div 65536) % 256, v \div 16777216>>
    IN IF ident \in {Magic32, Magic64} THEN Reverse(le) ELSE le

\* the header words after the magic are kept as bytes; the commands as decoded fields
MkFile(c) ==
    LET plain == MkCmds(c)
        cmds == [k \in 1..Len(plain) |-> Rewire(c.wire, plain[k])]
        total == SeqSum([k \in 1..Len(cmds) |-> cmds[k].siz])
        W(v) == Wire32(c.ident, v)
    IN [ident |-> c.ident,
        hdr |-> [Cpu |-> W(7), SubCpu |-> W(3), Type |-> W(TypeExec),
                 Ncmd |-> W(CASE c.hdr = "one command more" -> Len(cmds) + 1
                              [] c.hdr = "one command less" -> Len(cmds) - 1
                              [] OTHER -> Len(cmds)),
                 Cmdsz |-> W(IF c.hdr = "block cut short" THEN total - 4 ELSE total),
                 Flags |-> W(133)],
        cmds |-> cmds]

InputFiles ==
    { MkFile(c) : c \in InputShapes }
    \cup { MkFile([DefaultInput EXCEPT !.ident = id]) : id \in AllIdents }

(***************************************************************************)
(* The state after construction                                             *)
(***************************************************************************)
NoReader == [open |-> FALSE, head |-> << >>, fill |-> 0]

NilFile == [nil |-> TRUE]

\* f := new(File)
NewFileValue ==
    [nil |-> FALSE, Magic |-> <<0, 0, 0, 0>>, ByteOrder |-> "nil",
     Cpu |-> 0, SubCpu |-> 0, Type |-> 0, Ncmd |-> 0, Cmdsz |-> 0, Flags |-> 0,
     Loads |-> << >>, Sections |-> << >>, Symtab |-> Nil, Dysymtab |-> Nil]

NoDiag == [kind |-> "", name |-> ""]

Init ==
    /\ infile \in InputFiles
    /\ pc = "NewFile"
    /\ err = NoErr
    /\ exem = NewFileValue
    /\ heap = << >>
    /\ dat = 0 /\ offset = 0 /\ cmdi = 0
    /\ newtoc = NilFile
    /\ uuid = Nil /\ symtab = Nil /\ dysymtab = Nil /\ text = Nil /\ data = Nil
    /\ linkedit = Nil /\ pagezero = Nil /\ dwarf = Nil
    /\ newtext = Nil /\ newdata = Nil /\ newsymtab = Nil /\ newlinkedit = Nil /\ newdwarf = Nil
    /\ linkeditsyms = << >> /\ linkeditstrings = << >>
    /\ linkeditstringbase = 0 /\ linkeditstringcur = 0
    /\ i = 0
    /\ buffer = [len |-> 0, writes |-> << >>]
    /\ diag = NoDiag /\ exitcode = -1 /\ dirmade = FALSE /\ written = FALSE

mainVars == <<newtoc, uuid, symtab, dysymtab, text, data, linkedit, pagezero, dwarf,
              newtext, newdata, newsymtab, newlinkedit, newdwarf,
              linkeditsyms, linkeditstrings, linkeditstringbase, linkeditstringcur,
              i, buffer>>

\* &FormatError{off, msg, val}; val is -1 for a nil val
FormatError(off, msg, val) == [off |-> off, msg |-> msg, val |-> val]

\* an error of the underlying reader (binary.Read, ReadAt)
ReadError(msg) == [msg |-> msg, io |-> TRUE]

\* a Go run-time panic: the process prints the panic and exits with code 2
Panics(msg) ==
    /\ pc' = "panic"
    /\ diag' = [kind |-> "panic", name |-> msg]
    /\ exitcode' = 2
    /\ UNCHANGED <<dirmade, written>>

\* fail(): one line on standard error, os.Exit(1)
Fails(kind, name) ==
    /\ pc' = "fatal"
    /\ diag' = [kind |-> kind, name |-> name]
    /\ exitcode' = 1
    /\ UNCHANGED <<dirmade, written>>

(***************************************************************************)
(* macho.NewFile                                                            *)
(***************************************************************************)
\* the switch without the &^ 1 on either side: only Magic32 is matched
MagicCase_unmasked(ident) ==
    IF Magic32 = ident THEN BigEndian
    ELSE IF Magic32 = Reverse(ident) THEN LittleEndian
    ELSE "default"

\* the switch on Magic32 &^ 1: which case the ident bytes select
MagicCase(ident) ==
    LET be == ident
        le == Reverse(ident)
    IN IF AndNot1(Magic32) = AndNot1(be) THEN BigEndian
       ELSE IF AndNot1(Magic32) = AndNot1(le) THEN LittleEndian
       ELSE "default"

\* bo.Uint32 of four bytes, as the tuple of the value's bytes
Uint32Bytes(bo, b) == IF bo = BigEndian THEN b ELSE Reverse(b)

\* bo.Uint32 of four bytes, as a number
Uint32(bo, b) ==
    IF bo = BigEndian THEN ((b[1] * 256 + b[2]) * 256 + b[3]) * 256 + b[4]
    ELSE ((b[4] * 256 + b[3]) * 256 + b[2]) * 256 + b[1]

NewFile_Magic ==
    /\ pc = "NewFile"
    /\ LET c == MagicCase(infile.ident)
       IN IF c = "default"
          THEN /\ err' = FormatError(0, "invalid magic number", -1)
               /\ exem' = NilFile
               /\ pc' = "NewFile_return"
          ELSE /\ exem' = [exem EXCEPT !.ByteOrder = c,
                                       !.Magic = Uint32Bytes(c, infile.ident)]
               /\ pc' = "NewFile_header"
               /\ err' = err
    /\ UNCHANGED <<infile, heap, dat, offset, cmdi, mainVars, outVars>>

\* binary.Read of the FileHeader, the read of the load-command block, f.Loads
NewFile_Header ==
    /\ pc = "NewFile_header"
    /\ exem' = [exem EXCEPT !.Magic = Uint32Bytes(exem.ByteOrder, infile.ident),
                            !.Cpu = Uint32(exem.ByteOrder, infile.hdr.Cpu),
                            !.SubCpu = Uint32(exem.ByteOrder, infile.hdr.SubCpu),
                            !.Type = Uint32(exem.ByteOrder, infile.hdr.Type),
                            !.Ncmd = Uint32(exem.ByteOrder, infile.hdr.Ncmd),
                            !.Cmdsz = Uint32(exem.ByteOrder, infile.hdr.Cmdsz),
                            !.Flags = Uint32(exem.ByteOrder, infile.hdr.Flags),
                            !.Loads = [k \in 1..Uint32(exem.ByteOrder, infile.hdr.Ncmd) |-> Nil]]
    /\ offset' = IF exem.Magic = Magic64 THEN fileHeaderSize64 ELSE fileHeaderSize32
    /\ dat' = Uint32(exem.ByteOrder, infile.hdr.Cmdsz)
    /\ cmdi' = 0
    /\ pc' = "NewFile_loop"
    /\ UNCHANGED <<infile, err, heap, mainVars, outVars>>

LoadAlign(t) == IF t.Magic = Magic64 THEN 8 ELSE 4

HdrSize(t) == IF t.Magic = Magic32 THEN fileHeaderSize32 ELSE fileHeaderSize64

Command(l) == l.LoadCmd

\* Load.LoadSize of each variant
LoadSize1(t, l) ==
    CASE l.kind = "Segment" ->
           IF Command(l) = LoadCmdSegment64
           THEN SizeofSegment64 + l.Nsect * SizeofSection64
           ELSE SizeofSegment32 + l.Nsect * SizeofSection32
      [] l.kind = "Symtab" -> SizeofSymtabCmd
      [] l.kind = "Dysymtab" -> SizeofDysymtabCmd
      [] l.kind = "Dylib" -> roundup(SizeofDylibCmd + Len(l.Name), LoadAlign(t))
      [] l.kind = "LoadCmdBytes" -> l.LoadBytes

\* the command the loop reads next: the one after the cmdi commands consumed
NextCmd == infile.cmds[cmdi + 1]

\* the checks without the comparison of the length with the bytes that remain
BlockError_loose ==
    IF dat < 8 THEN "command block too small"
    ELSE IF NextCmd.siz < 8 THEN "invalid command block size"
    ELSE "none"

\* lines 899-905: the checks that let the loop take a command
BlockError ==
    IF dat < 8 THEN "command block too small"
    ELSE IF NextCmd.siz < 8 \/ NextCmd.siz > dat THEN "invalid command block size"
    ELSE "none"

InLoop == pc = "NewFile_loop" /\ cmdi < Len(exem.Loads)

\* the loop is over: return f, nil
NewFile_Return ==
    /\ pc = "NewFile_loop"
    /\ cmdi = Len(exem.Loads)
    /\ pc' = "NewFile_return"
    /\ UNCHANGED <<infile, err, exem, heap, dat, offset, cmdi, mainVars, outVars>>

NewFile_BadBlock ==
    /\ InLoop
    /\ BlockError # "none"
    /\ err' = FormatError(offset, BlockError, -1)
    /\ exem' = NilFile
    /\ pc' = "NewFile_return"
    /\ UNCHANGED <<infile, heap, dat, offset, cmdi, mainVars, outVars>>

\* the end of the loop body without the comparison of lines 1131-1134
StoreLoad_unchecked(l, sections, isSymtab, isDysymtab) ==
    LET id == Len(heap) + 1
    IN /\ heap' = Append(heap, l)
       /\ exem' = [exem EXCEPT !.Loads[cmdi + 1] = id,
                               !.Sections = sections,
                               !.Symtab = IF isSymtab THEN id ELSE @,
                               !.Dysymtab = IF isDysymtab THEN id ELSE @]
       /\ dat' = dat - NextCmd.siz
       /\ offset' = offset + NextCmd.siz
       /\ cmdi' = cmdi + 1
       /\ pc' = "NewFile_loop"
       /\ UNCHANGED <<infile, err, mainVars, outVars>>

\* the end of the loop body: f.Loads[i] is set, then lines 1131-1134
StoreLoad(l, sections, isSymtab, isDysymtab) ==
    LET id == Len(heap) + 1
        t == [exem EXCEPT !.Sections = sections]
    IN /\ heap' = Append(heap, l)
       /\ exem' = [exem EXCEPT !.Loads[cmdi + 1] = id,
                               !.Sections = sections,
                               !.Symtab = IF isSymtab THEN id ELSE @,
                               !.Dysymtab = IF isDysymtab THEN id ELSE @]
       /\ dat' = dat - NextCmd.siz
       /\ offset' = offset + NextCmd.siz
       /\ cmdi' = cmdi + 1
       /\ IF LoadSize1(t, l) # NextCmd.siz
          THEN Panics("oops")
          ELSE pc' = "NewFile_loop" /\ UNCHANGED outVars
       /\ UNCHANGED <<infile, err, mainVars>>

\* a parse error inside the loop body: return nil, err
ParseError(e) ==
    /\ err' = e
    /\ exem' = NilFile
    /\ pc' = "NewFile_return"
    /\ UNCHANGED <<infile, heap, dat, offset, cmdi, mainVars, outVars>>

\* one Section32/Section64 header decoded, with the reader pushSection gives it
ParseSection(w, is64) ==
    [Name |-> w.Name, Seg |-> w.Seg, Addr |-> w.Addr, Size |-> w.Size,
     Offset |-> w.Offset, Align |-> w.Align, Reloff |-> w.Reloff, Nreloc |-> w.Nreloc,
     Flags |-> w.Flags, Reserved1 |-> w.Reserve1, Reserved2 |-> w.Reserve2,
     Reserved3 |-> IF is64 THEN w.Reserve3 ELSE 0,
     sr |-> [open |-> TRUE, head |-> w.head, fill |-> w.fill]]

\* the segment header with Firstsect left at zero
ParseSegment_unanchored(w, firstsect) ==
    [kind |-> "Segment", LoadCmd |-> w.cmd, Len |-> w.siz, Name |-> w.Name,
     Addr |-> w.Addr, Memsz |-> w.Memsz, Offset |-> w.Offset, Filesz |-> w.Filesz,
     Maxprot |-> w.Maxprot, Prot |-> w.Prot, Nsect |-> w.Nsect, Flag |-> w.Flag,
     Firstsect |-> 0]

ParseSegment(w, firstsect) ==
    [kind |-> "Segment", LoadCmd |-> w.cmd, Len |-> w.siz, Name |-> w.Name,
     Addr |-> w.Addr, Memsz |-> w.Memsz, Offset |-> w.Offset, Filesz |-> w.Filesz,
     Maxprot |-> w.Maxprot, Prot |-> w.Prot, Nsect |-> w.Nsect, Flag |-> w.Flag,
     Firstsect |-> firstsect]

\* case LoadCmdSegment, case LoadCmdSegment64 (no input section has relocations)
NewFile_Segment ==
    /\ InLoop
    /\ BlockError = "none"
    /\ NextCmd.cmd \in {LoadCmdSegment, LoadCmdSegment64}
    /\ LET w == NextCmd
           is64 == w.cmd = LoadCmdSegment64
           need == IF is64 THEN SizeofSegment64 + w.Nsect * SizeofSection64
                           ELSE SizeofSegment32 + w.Nsect * SizeofSection32
       IN IF w.siz < need
          THEN ParseError(ReadError("unexpected EOF"))
          ELSE StoreLoad(ParseSegment(w, Len(exem.Sections)),
                         exem.Sections \o [k \in 1..w.Nsect |-> ParseSection(w.sects[k], is64)],
                         FALSE, FALSE)

\* File.parseSymtab: the symbols, or the offset of the first name that is out of range
BadNames(w) == {k \in 1..w.Nsyms : w.symdat[k].Name >= Len(w.strtab)}

ParseSym(w, k) ==
    LET n == w.symdat[k]
    IN [Name |-> cstring(w.strtab, n.Name), Type |-> n.Type, Sect |-> n.Sect,
        Desc |-> n.Desc, Value |-> n.Value]

\* case LoadCmdSymtab: st.SymtabCmd = hdr is executed before err is looked at,
\* and st is nil when parseSymtab failed
NewFile_Symtab ==
    /\ InLoop
    /\ BlockError = "none"
    /\ NextCmd.cmd = LoadCmdSymtab
    /\ LET w == NextCmd
       IN IF w.siz < SizeofSymtabCmd
          THEN ParseError(ReadError("unexpected EOF"))
          ELSE IF BadNames(w) # {}
          THEN /\ Panics("nil pointer dereference")
               /\ UNCHANGED <<infile, err, exem, heap, dat, offset, cmdi, mainVars>>
          ELSE StoreLoad([kind |-> "Symtab", LoadCmd |-> w.cmd, Len |-> w.siz,
                          Symoff |-> w.Symoff, Nsyms |-> w.Nsyms,
                          Stroff |-> w.Stroff, Strsize |-> w.Strsize,
                          Syms |-> [k \in 1..w.Nsyms |-> ParseSym(w, k)]],
                         exem.Sections, TRUE, FALSE)

\* case LoadCmdDysymtab
NewFile_Dysymtab ==
    /\ InLoop
    /\ BlockError = "none"
    /\ NextCmd.cmd = LoadCmdDysymtab
    /\ LET w == NextCmd
       IN IF w.siz < SizeofDysymtabCmd
          THEN ParseError(ReadError("unexpected EOF"))
          ELSE
          StoreLoad([kind |-> "Dysymtab", LoadCmd |-> w.cmd, Len |-> w.siz,
                     Ilocalsym |-> w.Ilocalsym, Nlocalsym |-> w.Nlocalsym,
                     Iextdefsym |-> w.Iextdefsym, Nextdefsym |-> w.Nextdefsym,
                     Iundefsym |-> w.Iundefsym, Nundefsym |-> w.Nundefsym,
                     Indirectsymoff |-> w.Indirectsymoff, Nindirectsyms |-> w.Nindirectsyms,
                     IndirectSyms |-> << >>],
                    exem.Sections, FALSE, TRUE)

\* case LoadCmdDylib: l := new(Dylib) gets Name, Time and the versions; its embedded
\* DylibCmd (opcode, length, name offset) keeps the zero value
NewFile_Dylib ==
    /\ InLoop
    /\ BlockError = "none"
    /\ NextCmd.cmd = LoadCmdDylib
    /\ LET w == NextCmd
       IN IF w.siz < SizeofDylibCmd
          THEN ParseError(ReadError("unexpected EOF"))
          ELSE IF w.NameOff >= w.siz
          THEN ParseError(FormatError(offset + w.siz, "invalid name in dynamic library command",
                                      w.NameOff))
          ELSE StoreLoad([kind |-> "Dylib", LoadCmd |-> LoadCmdZero, Len |-> 0,
                          Name |-> cstring(w.body, w.NameOff - SizeofDylibCmd),
                          Time |-> w.Time, CurrentVersion |-> w.CurrentVersion,
                          CompatVersion |-> w.CompatVersion],
                         exem.Sections, FALSE, FALSE)

\* default: the command is kept as LoadCmdBytes (its bytes by their number)
NewFile_Default ==
    /\ InLoop
    /\ BlockError = "none"
    /\ NextCmd.cmd \notin {LoadCmdSegment, LoadCmdSegment64, LoadCmdSymtab,
                           LoadCmdDysymtab, LoadCmdDylib}
    /\ LET w == NextCmd
       IN StoreLoad([kind |-> "LoadCmdBytes", LoadCmd |-> w.cmd, LoadBytes |-> w.siz,
                     raw |-> w.raw],
                    exem.Sections, FALSE, FALSE)

NewFileNext ==
    \/ NewFile_Magic
    \/ NewFile_Header
    \/ NewFile_Return
    \/ NewFile_BadBlock
    \/ NewFile_Segment
    \/ NewFile_Symtab
    \/ NewFile_Dysymtab
    \/ NewFile_Dylib
    \/ NewFile_Default


(***************************************************************************)
(* FileTOC                                                                  *)
(***************************************************************************)
\* FileTOC.DerivedCopy
\* a copy of the whole TOC with the four header fields replaced
DerivedCopy_sharing(t, Type, Flags) ==
    [nil |-> FALSE, Magic |-> t.Magic, ByteOrder |-> t.ByteOrder,
     Cpu |-> t.Cpu, SubCpu |-> t.SubCpu, Type |-> Type, Ncmd |-> 0, Cmdsz |-> 0,
     Flags |-> Flags, Loads |-> t.Loads, Sections |-> t.Sections]

DerivedCopy(t, Type, Flags) ==
    [nil |-> FALSE, Magic |-> t.Magic, ByteOrder |-> t.ByteOrder,
     Cpu |-> t.Cpu, SubCpu |-> t.SubCpu, Type |-> Type, Ncmd |-> 0, Cmdsz |-> 0,
     Flags |-> Flags, Loads |-> << >>, Sections |-> << >>]

\* FileTOC.LoadSize: the sum of the loads' sizes (h is the heap the ids refer to)
LoadSize(t, h) == SeqSum([k \in 1..Len(t.Loads) |-> LoadSize1(t, h[t.Loads[k]])])

\* the size that starts from the header and the load commands
FileSize_withHeader(t, h) ==
    LET ends == { h[t.Loads[k]].Offset + h[t.Loads[k]].Filesz :
                    k \in {j \in 1..Len(t.Loads) : h[t.Loads[j]].kind = "Segment"} }
    IN SetMax(ends \cup {HdrSize(t) + LoadSize(t, h)})

\* FileTOC.FileSize
FileSize(t, h) ==
    LET ends == { h[t.Loads[k]].Offset + h[t.Loads[k]].Filesz :
                    k \in {j \in 1..Len(t.Loads) : h[t.Loads[j]].kind = "Segment"} }
    IN SetMax(ends \cup {LoadSize(t, h)})

\* FileTOC.TOCSize
TOCSize(t, h) == HdrSize(t) + LoadSize(t, h)

\* FileTOC.SymbolSize: the size of a symbol table entry of the file's bitness
SymbolSize(t) == IF t.Magic = Magic64 THEN SizeofNlist64 ELSE SizeofNlist32

\* File.Segment: the first segment load with the name, or nil
Segment(f, h, name) ==
    LET hits == {k \in 1..Len(f.Loads) :
                    h[f.Loads[k]].kind = "Segment" /\ h[f.Loads[k]].Name = name}
    IN IF hits = {} THEN Nil ELSE f.Loads[SetMin(hits)]

\* Segment.Copy, Section.Copy, Symtab.Copy: the header fields, no reader
SegmentCopy(g) == g
SectionCopy(x) == [x EXCEPT !.sr = NoReader]
SymtabCopy(st) == st

\* Segment.CopyZeroed: a copy whose file offset and file size are zero
CopyZeroed(g) == [g EXCEPT !.Offset = 0, !.Filesz = 0]

\* A table of contents under construction is the pair of the TOC and the heap its
\* loads live in.  AddLoad appends the load; a segment's Firstsect becomes the
\* current number of sections.  AddSegment is AddLoad of a segment.
AddLoad(st, id) ==
    [toc |-> [st.toc EXCEPT !.Loads = Append(@, id)],
     heap |-> IF st.heap[id].kind = "Segment"
              THEN [st.heap EXCEPT ![id].Firstsect = Len(st.toc.Sections)]
              ELSE st.heap]

AddSegment(st, id) == AddLoad(st, id)

\* AddSection appends to the flat section list
AddSection(st, x) == [st EXCEPT !.toc.Sections = Append(@, x)]

(***************************************************************************)
(* Section payload helpers                                                  *)
(***************************************************************************)
\* binary.BigEndian.Uint64 of eight bytes
BigEndianUint64(b) ==
    LET RECURSIVE Go(_)
        Go(k) == IF k = 0 THEN 0 ELSE Go(k - 1) * 256 + b[k]
    IN Go(8)

\* Section.UncompressedSize panics ("Malformed object file") when ReadAt of the 12
\* header bytes fails, which io.SectionReader does on a section shorter than 12
Malformed(x) == HasPrefix(x.Name, PrefixZ) /\ Len(x.sr.head) < 12

\* the size with the declared length alone, the 12 header bytes not counted
UncompressedSize_bare(x) ==
    IF ~HasPrefix(x.Name, PrefixZ) THEN x.Size
    ELSE IF Len(x.sr.head) >= 12 /\ SubSeq(x.sr.head, 1, 4) = ZLIB
         THEN BigEndianUint64(SubSeq(x.sr.head, 5, 12))
    ELSE x.Size

\* Section.UncompressedSize, for a section that is not Malformed
UncompressedSize(x) ==
    IF ~HasPrefix(x.Name, PrefixZ) THEN x.Size
    ELSE IF Len(x.sr.head) >= 12 /\ SubSeq(x.sr.head, 1, 4) = ZLIB
         THEN 12 + BigEndianUint64(SubSeq(x.sr.head, 5, 12))
    ELSE x.Size

\* the sections of segment g in the flat list of t
SegmentSections(t, g) == [j \in 1..g.Nsect |-> t.Sections[j + g.Firstsect]]

\* Segment.UncompressedSize(t, align) panics when one of its sections does
SegmentMalformed(g, t) == \E j \in 1..g.Nsect : Malformed(SegmentSections(t, g)[j])

\* Segment.UncompressedSize(t, align)
SegmentUncompressedSize(g, t, align) ==
    LET cs == SegmentSections(t, g)
    IN roundup(SeqSum([j \in 1..Len(cs) |-> UncompressedSize(cs[j])]), align)

(***************************************************************************)
(* main                                                                     *)
(***************************************************************************)
\* exem, err := macho.NewFile(exef); if err != nil { fail(...) }
Main_NewFileResult ==
    /\ pc = "NewFile_return"
    /\ IF err # NoErr
       THEN Fails("internal", "Couldn't create macho")
       ELSE pc' = "main_uuid" /\ UNCHANGED outVars
    /\ UNCHANGED <<infile, err, exem, heap, dat, offset, cmdi, mainVars>>

is64bit == exem.Magic = Magic64

\* lines 105-111: the last load whose Command() is LoadCmdUuid
FindUuid(f, h) ==
    LET hits == {k \in 1..Len(f.Loads) : Command(h[f.Loads[k]]) = LoadCmdUuid}
    IN IF hits = {} THEN Nil ELSE f.Loads[SetMax(hits)]

\* lines 105-133
Main_Uuid ==
    /\ pc = "main_uuid"
    /\ uuid' = FindUuid(exem, heap)
    /\ newtoc' = DerivedCopy(exem, TypeDsym, 0)
    /\ pc' = "main_required"
    /\ UNCHANGED <<infile, err, exem, heap, dat, offset, cmdi, symtab, dysymtab, text, data,
                   linkedit, pagezero, dwarf, newPtrs, leVars, i, buffer, outVars>>

\* A value of interface type macho.Load made from a typed pointer.  The interface
\* holds the pointer's type, so it differs from the nil interface even when the
\* pointer is nil.
NilLoad == [type |-> "nil", ptr |-> Nil]
LoadOf(type, ptr) == [type |-> type, ptr |-> ptr]

\* nonnilC(l, s): does the check "l == nil" fire
nonnilC_fails(l) == l = NilLoad

\* lines 135-142: the required inputs, in the order the program looks for them
FirstMissing(f, h) ==
    LET names == <<"__TEXT", "__DATA", "__LINKEDIT", "__PAGEZERO">>
        miss == {k \in 1..Len(names) : Segment(f, h, names[k]) = Nil}
    IN IF miss = {} THEN "" ELSE names[SetMin(miss)]

Main_Required ==
    /\ pc = "main_required"
    /\ symtab' = exem.Symtab
    /\ dysymtab' = exem.Dysymtab
    /\ text' = Segment(exem, heap, "__TEXT")
    /\ data' = Segment(exem, heap, "__DATA")
    /\ linkedit' = Segment(exem, heap, "__LINKEDIT")
    /\ pagezero' = Segment(exem, heap, "__PAGEZERO")
    /\ IF nonnilC_fails(LoadOf("*Symtab", exem.Symtab)) THEN Fails("load", "symtab")
       ELSE IF nonnilC_fails(LoadOf("*Dysymtab", exem.Dysymtab)) THEN Fails("load", "dysymtab")
       ELSE IF FirstMissing(exem, heap) # "" THEN Fails("segment", FirstMissing(exem, heap))
       ELSE pc' = "main_copy" /\ UNCHANGED outVars
    /\ UNCHANGED <<infile, err, exem, heap, dat, offset, cmdi, newtoc, uuid, dwarf, newPtrs,
                   leVars, i, buffer>>

\* lines 144-146: symtab.Copy() reads the fields of *symtab
Main_Copy ==
    /\ pc = "main_copy"
    /\ IF symtab = Nil
       THEN /\ Panics("nil pointer dereference")
            /\ UNCHANGED <<heap, newPtrs>>
       ELSE /\ heap' = heap \o << CopyZeroed(heap[text]), CopyZeroed(heap[data]),
                                  SymtabCopy(heap[symtab]) >>
            /\ newtext' = Len(heap) + 1
            /\ newdata' = Len(heap) + 2
            /\ newsymtab' = Len(heap) + 3
            /\ UNCHANGED <<newlinkedit, newdwarf>>
            /\ pc' = "main_linkedit"
            /\ UNCHANGED outVars
    /\ UNCHANGED <<infile, err, exem, dat, offset, cmdi, newtoc, srcPtrs, leVars, i, buffer>>

linkeditsymbase == Pow2(pageAlign)

\* lines 151-168: dysymtab.Nextdefsym reads a field of *dysymtab
Main_Linkedit ==
    /\ pc = "main_linkedit"
    /\ IF dysymtab = Nil
       THEN /\ Panics("nil pointer dereference")
            /\ UNCHANGED <<heap, leVars, i>>
       ELSE LET base == linkeditsymbase + SymbolSize(exem) * heap[dysymtab].Nextdefsym
            IN /\ linkeditsyms' = << >>
               /\ linkeditstrings' = << >>
               /\ linkeditstringbase' = base
               /\ linkeditstringcur' = 2
               /\ heap' = [heap EXCEPT ![newsymtab].Syms = << >>,
                                       ![newsymtab].Symoff = linkeditsymbase,
                                       ![newsymtab].Stroff = base,
                                       ![newsymtab].Nsyms = heap[dysymtab].Nextdefsym]
               /\ i' = 0
               /\ pc' = "main_symloop"
               /\ UNCHANGED outVars
    /\ UNCHANGED <<infile, err, exem, dat, offset, cmdi, newtoc, srcPtrs, newPtrs, buffer>>

\* ii := i + dysymtab.Iextdefsym
SymIndex(k, dt) == k + dt.Iextdefsym

\* the Nlist64 built from oldsym at the string cursor
NewNlist(oldsym, cur) ==
    [Name |-> cur, Type |-> oldsym.Type, Sect |-> oldsym.Sect,
     Desc |-> oldsym.Desc, Value |-> oldsym.Value]

\* lines 169-179: one iteration of the symbol loop (Syms is indexed from 0 in Go)
Main_SymLoop ==
    /\ pc = "main_symloop"
    /\ i < heap[dysymtab].Nextdefsym
    /\ LET ii == SymIndex(i, heap[dysymtab])
       IN IF ii >= Len(heap[symtab].Syms)
          THEN /\ Panics("index out of range")
               /\ UNCHANGED <<heap, leVars, i>>
          ELSE LET oldsym == heap[symtab].Syms[ii + 1]
               IN /\ heap' = [heap EXCEPT ![newsymtab].Syms = Append(@, oldsym)]
                  /\ linkeditsyms' = Append(linkeditsyms, NewNlist(oldsym, linkeditstringcur))
                  /\ linkeditstringcur' = linkeditstringcur + Len(oldsym.Name) + 1
                  /\ linkeditstrings' = Append(linkeditstrings, oldsym.Name)
                  /\ i' = i + 1
                  /\ pc' = pc
                  /\ UNCHANGED <<outVars, linkeditstringbase>>
    /\ UNCHANGED <<infile, err, exem, dat, offset, cmdi, newtoc, srcPtrs, newPtrs, buffer>>

\* the copy that keeps the file offset of the source section
ZOdSection_offsetKept(x) == [SectionCopy(x) EXCEPT !.Reloff = 0, !.Nreloc = 0]

\* the sections copyZOdSections(g) adds: copies with Offset, Reloff, Nreloc zeroed
ZOdSection(x) == [SectionCopy(x) EXCEPT !.Offset = 0, !.Reloff = 0, !.Nreloc = 0]

copyZOdSections(st, g) ==
    LET RECURSIVE Go(_)
        Go(n) == IF n = 0 THEN st
                 ELSE AddSection(Go(n - 1), ZOdSection(exem.Sections[g.Firstsect + n]))
    IN Go(g.Nsect)

\* the loads added with the uuid after the new symtab instead of before it
AssembleLoads_uuidSecond(st0) ==
    LET st1 == AddLoad(st0, newsymtab)
        st2 == IF uuid # Nil THEN AddLoad(st1, uuid) ELSE st1
        st3 == AddSegment(st2, pagezero)
        st4 == AddSegment(st3, newtext)
        st5 == copyZOdSections(st4, st4.heap[text])
        st6 == AddSegment(st5, newdata)
    IN copyZOdSections(st6, st6.heap[data])

\* lines 180-204: the loop is over; the loads up to __DATA are added
AssembleLoads(st0) ==
    LET st1 == IF uuid # Nil THEN AddLoad(st0, uuid) ELSE st0
        st2 == AddLoad(st1, newsymtab)
        st3 == AddSegment(st2, pagezero)
        st4 == AddSegment(st3, newtext)
        st5 == copyZOdSections(st4, st4.heap[text])
        st6 == AddSegment(st5, newdata)
    IN copyZOdSections(st6, st6.heap[data])

Main_Assemble ==
    /\ pc = "main_symloop"
    /\ i >= heap[dysymtab].Nextdefsym
    /\ LET st == AssembleLoads([toc |-> newtoc,
                                heap |-> [heap EXCEPT ![newsymtab].Strsize = linkeditstringcur]])
       IN /\ newtoc' = st.toc
          /\ heap' = st.heap
    /\ pc' = "main_newlinkedit"
    /\ UNCHANGED <<infile, err, exem, dat, offset, cmdi, srcPtrs, newPtrs, leVars, i, buffer,
                   outVars>>

\* lines 206-210: the new __LINKEDIT header
NewLinkedit(g, nd, cur) ==
    [SegmentCopy(g) EXCEPT !.Offset = linkeditsymbase,
                           !.Filesz = cur,
                           !.Addr = roundup(nd.Addr + nd.Memsz, Pow2(pageAlign)),
                           !.Memsz = roundup(cur, Pow2(pageAlign))]

\* lines 206-212
Main_NewLinkedit ==
    /\ pc = "main_newlinkedit"
    /\ LET id == Len(heap) + 1
           st == AddSegment([toc |-> newtoc,
                             heap |-> Append(heap, NewLinkedit(heap[linkedit], heap[newdata],
                                                               linkeditstringcur))], id)
       IN /\ newlinkedit' = id
          /\ newtoc' = st.toc
          /\ heap' = st.heap
    /\ pc' = "main_newdwarf"
    /\ UNCHANGED <<infile, err, exem, dat, offset, cmdi, srcPtrs, newtext, newdata, newsymtab,
                   newdwarf, leVars, i, buffer, outVars>>

\* lines 215-219: the new __DWARF header, given the uncompressed size of the source's
NewDwarf(g, nl, usize) ==
    [CopyZeroed(g) EXCEPT !.Offset = roundup(nl.Offset + nl.Filesz, Pow2(pageAlign)),
                          !.Filesz = usize,
                          !.Addr = nl.Addr + nl.Memsz,
                          !.Memsz = roundup(usize, Pow2(pageAlign))]

\* lines 214-223
Main_NewDwarf ==
    /\ pc = "main_newdwarf"
    /\ dwarf' = Segment(exem, heap, "__DWARF")
    /\ IF dwarf' = Nil
       THEN /\ Fails("segment", "__DWARF")
            /\ UNCHANGED <<heap, newtoc, newdwarf, offset, i>>
       ELSE LET usize == SegmentUncompressedSize(heap[dwarf'], exem, 1)
            IN IF SegmentMalformed(heap[dwarf'], exem)
               THEN /\ Panics("Malformed object file")
                    /\ UNCHANGED <<heap, newtoc, newdwarf, offset, i>>
               ELSE LET id == Len(heap) + 1
                        nd == NewDwarf(heap[dwarf'], heap[newlinkedit], usize)
                        st == AddSegment([toc |-> newtoc, heap |-> Append(heap, nd)], id)
                    IN /\ newdwarf' = id
                       /\ newtoc' = st.toc
                       /\ heap' = st.heap
                       /\ offset' = nd.Offset
                       /\ i' = heap[dwarf'].Firstsect
                       /\ pc' = "main_dwarfloop"
                       /\ UNCHANGED outVars
    /\ UNCHANGED <<infile, err, exem, dat, cmdi, uuid, symtab, dysymtab, text, data, linkedit,
                   pagezero, newtext, newdata, newsymtab, newlinkedit, leVars, buffer>>

\* the rewrite without its test of the prefix: the third character always goes
RewriteName_untested(name) == SubSeq(name, 1, 2) \o SubSeq(name, 4, Len(name))

\* lines 235-237: s.Name[0:2] + s.Name[3:] when the name starts with "__z"
RewriteName(name) ==
    IF HasPrefix(name, PrefixZ)
    THEN SubSeq(name, 1, 2) \o SubSeq(name, 4, Len(name))
    ELSE name

\* the new header that keeps the alignment of a section it has grown
NewDwarfSection_aligned(o, off) ==
    LET us == UncompressedSize(o)
        grown == o.Size < us
    IN [SectionCopy(o) EXCEPT !.Offset = off,
                              !.Size = IF grown THEN us ELSE @,
                              !.Name = RewriteName(@),
                              !.Reloff = 0,
                              !.Nreloc = 0]

\* lines 226-239: the new header of DWARF section o placed at off
NewDwarfSection(o, off) ==
    LET us == UncompressedSize(o)
        grown == o.Size < us
    IN [SectionCopy(o) EXCEPT !.Offset = off,
                              !.Size = IF grown THEN us ELSE @,
                              !.Align = IF grown THEN 0 ELSE @,
                              !.Name = RewriteName(@),
                              !.Reloff = 0,
                              !.Nreloc = 0]

\* lines 225-241: one iteration of the DWARF section loop (Sections is indexed from 0)
Main_DwarfLoop ==
    /\ pc = "main_dwarfloop"
    /\ i < heap[dwarf].Firstsect + heap[dwarf].Nsect
    /\ LET o == exem.Sections[i + 1]
           st == AddSection([toc |-> newtoc, heap |-> heap], NewDwarfSection(o, offset))
       IN /\ newtoc' = st.toc
          /\ offset' = offset + UncompressedSize(o)
    /\ i' = i + 1
    /\ pc' = pc
    /\ UNCHANGED <<infile, err, exem, heap, dat, cmdi, srcPtrs, newPtrs, leVars, buffer, outVars>>

\* line 246
Main_Alloc ==
    /\ pc = "main_dwarfloop"
    /\ i >= heap[dwarf].Firstsect + heap[dwarf].Nsect
    /\ buffer' = [len |-> FileSize(newtoc, heap), writes |-> << >>]
    /\ pc' = "main_writesyms"
    /\ UNCHANGED <<infile, err, exem, heap, dat, offset, cmdi, newtoc, srcPtrs, newPtrs, leVars,
                   i, outVars>>

(***************************************************************************)
(* The output buffer                                                        *)
(***************************************************************************)
\* a write of n bytes at off: the bytes of data, then fill up to n
Write(off, n, bytes, fill) == [off |-> off, n |-> n, data |-> bytes, fill |-> fill]

Covers(w, o) == w.off <= o /\ o < w.off + w.n

ByteOf(w, o) == IF o - w.off < Len(w.data) THEN w.data[o - w.off + 1] ELSE w.fill

\* the byte of the buffer at offset o
ByteAt(b, o) ==
    LET ws == {k \in 1..Len(b.writes) : Covers(b.writes[k], o)}
    IN IF ws = {} THEN 0 ELSE ByteOf(b.writes[SetMax(ws)], o)

\* a write fits when all its indices are below len(buffer)
Fits(b, w) == w.off + w.n <= b.len

\* the bytes of v in nbytes bytes, in byte order bo
RECURSIVE PutBE(_, _)
PutBE(v, nbytes) == IF nbytes = 0 THEN << >> ELSE Append(PutBE(v \div 256, nbytes - 1), v % 256)
PutUint(bo, v, nbytes) == IF bo = BigEndian THEN PutBE(v, nbytes) ELSE Reverse(PutBE(v, nbytes))

\* Nlist64.Put64 and Nlist64.Put32: the wire form of Nlist64 / Nlist32
PutNlist(n, bo, is64) ==
    PutUint(bo, n.Name, 4) \o <<n.Type, n.Sect>> \o PutUint(bo, n.Desc, 2)
    \o PutUint(bo, n.Value, IF is64 THEN 8 ELSE 4)

\* lines 251-258: the symbol entries, one after the other from newlinkedit.Offset
SymWrites(syms, base, bo, is64) ==
    [k \in 1..Len(syms) |->
        LET sz == IF is64 THEN SizeofNlist64 ELSE SizeofNlist32
        IN Write(base + (k - 1) * sz, sz, PutNlist(syms[k], bo, is64), 0)]

Main_WriteSyms ==
    /\ pc = "main_writesyms"
    /\ LET ws == SymWrites(linkeditsyms, heap[newlinkedit].Offset, newtoc.ByteOrder, is64bit)
       IN IF \E k \in 1..Len(ws) : ~Fits(buffer, ws[k])
          THEN /\ Panics("index out of range")
               /\ UNCHANGED <<buffer, offset>>
          ELSE /\ buffer' = [buffer EXCEPT !.writes = @ \o ws]
               /\ offset' = heap[newlinkedit].Offset + Len(ws) * SymbolSize(exem)
               /\ pc' = "main_writestrings"
               /\ UNCHANGED outVars
    /\ UNCHANGED <<infile, err, exem, heap, dat, cmdi, newtoc, srcPtrs, newPtrs, leVars, i>>

\* lines 260-270: ' ', 0, then every string and its 0
StringBytes(strs) == <<32, 0>> \o Flatten([k \in 1..Len(strs) |-> strs[k] \o <<0>>])

Main_WriteStrings ==
    /\ pc = "main_writestrings"
    /\ LET bytes == StringBytes(linkeditstrings)
           w == Write(linkeditstringbase, Len(bytes), bytes, 0)
       IN IF ~Fits(buffer, w)
          THEN /\ Panics("index out of range")
               /\ UNCHANGED <<buffer, offset>>
          ELSE /\ buffer' = [buffer EXCEPT !.writes = Append(@, w)]
               /\ offset' = linkeditstringbase + Len(bytes)
               /\ pc' = "main_writedwarf"
               /\ UNCHANGED outVars
    /\ UNCHANGED <<infile, err, exem, heap, dat, cmdi, newtoc, srcPtrs, newPtrs, leVars, i>>

\* Section.PutUncompressedData(dest): a section with the ZLIB header is inflated to
\* the length the header declares; any other section is copied byte for byte
IsCompressed(x) ==
    /\ HasPrefix(x.Name, PrefixZ)
    /\ Len(x.sr.head) >= 12
    /\ SubSeq(x.sr.head, 1, 4) = ZLIB

PutUncompressedData(x, off) ==
    IF IsCompressed(x)
    THEN Write(off, BigEndianUint64(SubSeq(x.sr.head, 5, 12)), << >>, x.sr.fill)
    ELSE Write(off, x.Size, x.sr.head, x.sr.fill)

\* lines 273-278: section i of the source goes to the offset of section i + ioff
DwarfWrites ==
    LET g == heap[dwarf]
        ioff == heap[newdwarf].Firstsect - g.Firstsect
    IN [k \in 1..g.Nsect |->
          PutUncompressedData(exem.Sections[g.Firstsect + k],
                              newtoc.Sections[g.Firstsect + k + ioff].Offset)]

Main_WriteDwarf ==
    /\ pc = "main_writedwarf"
    /\ LET ws == DwarfWrites
       IN IF \E k \in 1..Len(ws) : ~Fits(buffer, ws[k])
          THEN /\ Panics("index out of range")
               /\ UNCHANGED buffer
          ELSE /\ buffer' = [buffer EXCEPT !.writes = @ \o ws]
               /\ pc' = "main_put"
               /\ UNCHANGED outVars
    /\ UNCHANGED <<infile, err, exem, heap, dat, offset, cmdi, newtoc, srcPtrs, newPtrs, leVars, i>>

\* FileTOC.Put(buffer): the header and the loads, HdrSize + LoadSize bytes from 0;
\* their values are not modelled (-1)
TocWrite(t, h) == Write(0, TOCSize(t, h), << >>, -1)

\* line 282
Main_Put ==
    /\ pc = "main_put"
    /\ IF ~Fits(buffer, TocWrite(newtoc, heap))
       THEN /\ Panics("index out of range")
            /\ UNCHANGED buffer
       ELSE /\ buffer' = [buffer EXCEPT !.writes = Append(@, TocWrite(newtoc, heap))]
            /\ pc' = "main_output"
            /\ UNCHANGED outVars
    /\ UNCHANGED <<infile, err, exem, heap, dat, offset, cmdi, newtoc, srcPtrs, newPtrs, leVars, i>>

\* lines 284-293: without an output argument the directory is made first
Main_Mkdir ==
    /\ pc = "main_output"
    /\ \E argGiven \in BOOLEAN, ok \in BOOLEAN :
         IF argGiven
         THEN pc' = "main_writefile" /\ UNCHANGED outVars
         ELSE IF ok
              THEN /\ dirmade' = TRUE
                   /\ pc' = "main_writefile"
                   /\ UNCHANGED <<diag, exitcode, written>>
              ELSE Fails("io", "Could not create directory for debugging symbols")
    /\ UNCHANGED <<infile, err, exem, heap, dat, offset, cmdi, mainVars>>

\* lines 294-297
Main_WriteFile ==
    /\ pc = "main_writefile"
    /\ \E ok \in BOOLEAN :
         IF ok
         THEN /\ written' = TRUE
              /\ pc' = "done"
              /\ exitcode' = 0
              /\ UNCHANGED <<diag, dirmade>>
         ELSE Fails("io", "Could not create output dwarf/dsym file")
    /\ UNCHANGED <<infile, err, exem, heap, dat, offset, cmdi, mainVars>>

MainNext ==
    \/ Main_NewFileResult
    \/ Main_Uuid
    \/ Main_Required
    \/ Main_Copy
    \/ Main_Linkedit
    \/ Main_SymLoop
    \/ Main_Assemble
    \/ Main_NewLinkedit
    \/ Main_NewDwarf
    \/ Main_DwarfLoop
    \/ Main_Alloc
    \/ Main_WriteSyms
    \/ Main_WriteStrings
    \/ Main_WriteDwarf
    \/ Main_Put
    \/ Main_Mkdir
    \/ Main_WriteFile

Next == NewFileNext \/ MainNext

Spec == Init /\ [][Next]_vars

(***************************************************************************)
(* The methods of Section and FileTOC called on their own: the receiver and *)
(* the arguments are drawn from the sets below, one action per method.      *)
(* infile holds the call, exem and heap the receiving TOC and its loads,    *)
(* offset the number a method returns, newtoc the TOC DerivedCopy returns.  *)
(***************************************************************************)
\* sections: names with and without the "__z" prefix, views of 0 to 200 bytes,
\* payloads that start with "ZLIB" or with "ZLIC" followed by a length
CallNames == { N_debug_info, N_zdebug_info, PrefixZ, <<95, 95>>, <<95, 122, 100>>, << >> }
CallSizes == { 0, 4, 11, 12, 13, 200 }
CallTags == { ZLIB, <<90, 76, 73, 67>> }
CallLengths == { 0, 1, 5000 }

CallSection(name, size, tag, n) ==
    LET payload == tag \o BE64(n)
        head == SubSeq(payload, 1, IF size < 12 THEN size ELSE 12)
    IN ParseSection(WSect(name, "__DWARF", size, head, 7), TRUE)

CallSections ==
    { CallSection(name, size, tag, n) :
        name \in CallNames, size \in CallSizes, tag \in CallTags, n \in CallLengths }

\* loads: segments that end before and after the end of the load commands, one
\* with a section that lies beyond its segment, a symtab whose tables lie beyond
\* every segment, a uuid
CallLoads(is64) ==
    << ParseSegment(WSeg(is64, "__PAGEZERO", 0, 4096, 0, 0, << >>), 0),
       ParseSegment(WSeg(is64, "__TEXT", 4096, 8192, 10, 20, << >>), 0),
       ParseSegment(WSeg(is64, "__DATA", 12288, 4096, 4096, 100,
                         << WSect(N_data, "__DATA", 500, PlainHead(500, 1), 1) >>), 0),
       [kind |-> "Symtab", LoadCmd |-> LoadCmdSymtab, Len |-> SizeofSymtabCmd,
        Symoff |-> 20000, Nsyms |-> 10, Stroff |-> 30000, Strsize |-> 100, Syms |-> << >>],
       [kind |-> "LoadCmdBytes", LoadCmd |-> LoadCmdUuid, LoadBytes |-> 24, raw |-> 1] >>

\* the TOCs whose loads are up to MaxCallLoads of those, in any order
MaxCallLoads == 3

CallPicks ==
    UNION { [1..n -> 1..Len(CallLoads(TRUE))] : n \in 0..MaxCallLoads }

CallTOC(magic, bo, picks) ==
    LET loads == [k \in 1..Len(picks) |-> CallLoads(magic = Magic64)[picks[k]]]
    IN [toc |-> [nil |-> FALSE, Magic |-> magic, ByteOrder |-> bo, Cpu |-> 7, SubCpu |-> 3,
                 Type |-> TypeExec, Ncmd |-> Len(picks),
                 Cmdsz |-> SeqSum([k \in 1..Len(picks) |->
                                     IF loads[k].kind = "LoadCmdBytes"
                                     THEN loads[k].LoadBytes ELSE loads[k].Len]),
                 Flags |-> 133,
                 Loads |-> [k \in 1..Len(picks) |-> k],
                 Sections |-> Flatten([k \in 1..Len(picks) |->
                                 IF picks[k] = 3
                                 THEN << ParseSection(WSect(N_data, "__DATA", 500,
                                                            PlainHead(500, 1), 1),
                                                      magic = Magic64) >>
                                 ELSE << >>])],
        loads |-> loads]

CallTOCs ==
    { CallTOC(magic, bo, picks) :
        magic \in {Magic32, Magic64}, bo \in {LittleEndian}, picks \in CallPicks }
    \cup { CallTOC(Magic64, BigEndian, picks) : picks \in { << >>, <<3, 4>> } }

Calls ==
    { [fn |-> "Section.UncompressedSize", sect |-> x, toc |-> NilFile, loads |-> << >>,
       Type |-> 0, Flags |-> 0] : x \in CallSections }
    \cup { [fn |-> "FileTOC.FileSize", sect |-> Nil, toc |-> t.toc, loads |-> t.loads,
            Type |-> 0, Flags |-> 0] : t \in CallTOCs }
    \cup { [fn |-> "FileTOC.DerivedCopy", sect |-> Nil, toc |-> t.toc, loads |-> t.loads,
            Type |-> ty, Flags |-> fl] :
            t \in {u \in CallTOCs : Len(u.loads) <= 2}, ty \in {TypeExec, TypeDsym},
            fl \in {0, 133} }

CallInit ==
    /\ infile \in Calls
    /\ pc = "call"
    /\ err = NoErr
    /\ exem = infile.toc
    /\ heap = infile.loads
    /\ dat = 0 /\ offset = 0 /\ cmdi = 0
    /\ newtoc = NilFile
    /\ uuid = Nil /\ symtab = Nil /\ dysymtab = Nil /\ text = Nil /\ data = Nil
    /\ linkedit = Nil /\ pagezero = Nil /\ dwarf = Nil
    /\ newtext = Nil /\ newdata = Nil /\ newsymtab = Nil /\ newlinkedit = Nil /\ newdwarf = Nil
    /\ linkeditsyms = << >> /\ linkeditstrings = << >>
    /\ linkeditstringbase = 0 /\ linkeditstringcur = 0
    /\ i = 0
    /\ buffer = [len |-> 0, writes |-> << >>]
    /\ diag = NoDiag /\ exitcode = -1 /\ dirmade = FALSE /\ written = FALSE

\* s.UncompressedSize()
Call_UncompressedSize ==
    /\ pc = "call"
    /\ infile.fn = "Section.UncompressedSize"
    /\ IF Malformed(infile.sect)
       THEN Panics("Malformed object file") /\ UNCHANGED offset
       ELSE /\ offset' = UncompressedSize(infile.sect)
            /\ pc' = "return"
            /\ UNCHANGED outVars
    /\ UNCHANGED <<infile, err, exem, heap, dat, cmdi, mainVars>>

\* t.FileSize()
Call_FileSize ==
    /\ pc = "call"
    /\ infile.fn = "FileTOC.FileSize"
    /\ offset' = FileSize(exem, heap)
    /\ pc' = "return"
    /\ UNCHANGED <<infile, err, exem, heap, dat, cmdi, mainVars, outVars>>

\* t.DerivedCopy(Type, Flags)
Call_DerivedCopy ==
    /\ pc = "call"
    /\ infile.fn = "FileTOC.DerivedCopy"
    /\ newtoc' = DerivedCopy(exem, infile.Type, infile.Flags)
    /\ pc' = "return"
    /\ UNCHANGED <<infile, err, exem, heap, dat, offset, cmdi, srcPtrs, newPtrs, leVars, i,
                   buffer, outVars>>

CallNext == Call_UncompressedSize \/ Call_FileSize \/ Call_DerivedCopy

CallSpec == CallInit /\ [][CallNext]_vars

(***************************************************************************)
(* Vocabulary of the properties: the input file as written, the phases of   *)
(* a run, the bytes of the output buffer                                    *)
(***************************************************************************)
SynthPcs == {"main_uuid", "main_required", "main_copy", "main_linkedit", "main_symloop",
             "main_newlinkedit", "main_newdwarf", "main_dwarfloop", "main_writesyms",
             "main_writestrings", "main_writedwarf", "main_put", "main_output",
             "main_writefile"}

\* the run is over
Ended == pc \in {"done", "fatal", "panic"}

\* NewFile returned a File
Parsed == ~newtoc.nil

\* the whole buffer is built: header and loads were written last
Built == pc \in {"main_output", "main_writefile", "done"}

\* the new TOC has all its loads
Assembled == newdwarf # Nil

\* the commands the header declares (its Ncmd word, below 65536 in every input), and
\* those of them with opcode op
DeclaredNcmd ==
    LET b == infile.hdr.Ncmd
    IN IF infile.ident \in {Magic32, Magic64} THEN b[4] + 256 * b[3] ELSE b[1] + 256 * b[2]
CmdsWith(op) ==
    {k \in 1..Len(infile.cmds) : k <= DeclaredNcmd /\ infile.cmds[k].cmd = op}
SrcHas(op) == CmdsWith(op) # {}
SrcCmd(op) == infile.cmds[SetMin(CmdsWith(op))]
SrcSegs(name) ==
    {k \in CmdsWith(LoadCmdSegment) \cup CmdsWith(LoadCmdSegment64) : infile.cmds[k].Name = name}
SrcSeg(name) == infile.cmds[SetMin(SrcSegs(name))]
SrcMissing == {n \in Required : SrcSegs(n) = {}}

\* source symbol number n (from 0) as the file holds it, and its name
SrcSym(n) == SrcCmd(LoadCmdSymtab).symdat[n + 1]
SrcSymName(n) == cstring(SrcCmd(LoadCmdSymtab).strtab, SrcSym(n).Name)

\* byte e (from the least significant) of v, and v in n bytes of byte order bo
ByteOfValue(v, e) == IF e >= 4 THEN 0 ELSE (v \div (256 ^ e)) % 256
FieldBytes(bo, v, n) ==
    [j \in 1..n |-> ByteOfValue(v, IF bo = BigEndian THEN n - j ELSE j - 1)]
BufferBytes(o, n) == [j \in 1..n |-> ByteAt(buffer, o + j - 1)]

\* C1 symbol restriction: once the buffer is built, the output symbol table has
\* Nextdefsym entries, and entry i of the output (the bytes at Symoff + i * entry
\* size) holds the Type, Sect, Desc and Value of source symbol Iextdefsym + i.
C1_SymbolRestriction ==
    Built =>
      LET dt == SrcCmd(LoadCmdDysymtab)
          sz == IF infile.ident \in {Magic64, Reverse(Magic64)} THEN 16 ELSE 12
          bo == newtoc.ByteOrder
      IN /\ heap[newsymtab].Nsyms = dt.Nextdefsym
         /\ \A n \in 0..(dt.Nextdefsym - 1) :
              LET s == SrcSym(dt.Iextdefsym + n)
                  o == heap[newsymtab].Symoff + n * sz
              IN /\ BufferBytes(o + 4, 2) = <<s.Type, s.Sect>>
                 /\ BufferBytes(o + 6, 2) = FieldBytes(bo, s.Desc, 2)
                 /\ BufferBytes(o + 8, sz - 8) = FieldBytes(bo, s.Value, sz - 8)

\* C2 string table well-formedness: once the buffer is built, the bytes at Stroff are
\* 0x20, 0x00; the bytes at Stroff + name-offset of every retained symbol are its
\* name and a 0x00; Strsize is 2 + the sum of len(name) + 1 over the retained symbols.
C2_StringTable ==
    Built =>
      LET dt == SrcCmd(LoadCmdDysymtab)
          st == heap[newsymtab]
          nm(n) == SrcSymName(dt.Iextdefsym + n)
      IN /\ BufferBytes(st.Stroff, 2) = <<32, 0>>
         /\ \A n \in 0..(dt.Nextdefsym - 1) :
              BufferBytes(st.Stroff + linkeditsyms[n + 1].Name, Len(nm(n)) + 1)
                = nm(n) \o <<0>>
         /\ st.Strsize = linkeditstringcur
         /\ st.Strsize = 2 + SeqSum([k \in 1..dt.Nextdefsym |-> Len(nm(k - 1)) + 1])

\* C3 alignment: in an assembled TOC the new __LINKEDIT and the new __DWARF have Offset
\* and Memsz that are multiples of 4096, and the new __DWARF's Addr is the new
\* __LINKEDIT's Addr + Memsz.
C3_Alignment ==
    Assembled =>
      LET l == heap[newlinkedit]
          d == heap[newdwarf]
      IN /\ l.Offset % 4096 = 0 /\ l.Memsz % 4096 = 0
         /\ d.Offset % 4096 = 0 /\ d.Memsz % 4096 = 0
         /\ d.Addr = l.Addr + l.Memsz

\* a finished run in which both roundings had something to round
C3_Witness ==
    /\ pc = "done"
    /\ heap[newlinkedit].Filesz % 4096 # 0
    /\ heap[newlinkedit].Memsz > heap[newlinkedit].Filesz
    /\ heap[newdwarf].Filesz % 4096 # 0
    /\ heap[newdwarf].Offset > heap[newlinkedit].Offset + heap[newlinkedit].Filesz

\* the name the output is to carry for source section name n
ExpectedName(n) ==
    IF Len(n) >= 3 /\ n[1] = 95 /\ n[2] = 95 /\ n[3] = 122
    THEN [j \in 1..(Len(n) - 1) |-> IF j <= 2 THEN n[j] ELSE n[j + 1]]
    ELSE n

\* the sections of the output __DWARF
OutDwarfSections ==
    [k \in 1..heap[newdwarf].Nsect |-> newtoc.Sections[heap[newdwarf].Firstsect + k]]

\* C4 name rewrite: once the buffer is built, the output __DWARF has as many sections
\* as the source's, and its k-th section is named like the k-th source section with the
\* 'z' after "__" removed, or exactly like it when the source name does not start "__z".
C4_NameRewrite ==
    Built =>
      LET src == SrcSeg("__DWARF").sects
      IN /\ heap[newdwarf].Nsect = Len(src)
         /\ Len(newtoc.Sections) = heap[newdwarf].Firstsect + Len(src)
         /\ \A k \in 1..Len(src) : OutDwarfSections[k].Name = ExpectedName(src[k].Name)

\* a finished run whose source __DWARF has a "__z" section and one that is not
C4_Witness ==
    /\ pc = "done"
    /\ \E k \in 1..heap[dwarf].Nsect :
         /\ HasPrefix(SrcSeg("__DWARF").sects[k].Name, PrefixZ)
         /\ OutDwarfSections[k].Name # SrcSeg("__DWARF").sects[k].Name
    /\ \E k \in 1..heap[dwarf].Nsect : ~HasPrefix(SrcSeg("__DWARF").sects[k].Name, PrefixZ)

\* the compressed source sections of C5: named __zdebug_info, payload "ZLIB" and
\* a declared length above the raw size
ZdebugInfo ==
    {k \in 1..Len(SrcSeg("__DWARF").sects) :
        LET x == SrcSeg("__DWARF").sects[k]
        IN /\ x.Name = N_zdebug_info
           /\ Len(x.head) >= 12
           /\ SubSeq(x.head, 1, 4) = ZLIB
           /\ x.Size < BigEndianUint64(SubSeq(x.head, 5, 12))}

\* C5 compressed section: once the buffer is built from a source whose __zdebug_info
\* declares uncompressed length N above its raw size, the output has a section named
\* __debug_info with Size = N at an offset of at least newlinkedit.Offset + Filesz.
C5_DebugInfoSize ==
    Built =>
      \A k \in ZdebugInfo :
        \E j \in 1..Len(OutDwarfSections) :
          /\ OutDwarfSections[j].Name = N_debug_info
          /\ OutDwarfSections[j].Size
               = BigEndianUint64(SubSeq(SrcSeg("__DWARF").sects[k].head, 5, 12))
          /\ OutDwarfSections[j].Offset
               >= heap[newlinkedit].Offset + heap[newlinkedit].Filesz

\* C6 load order: an assembled TOC lists the source's uuid load if the source has one,
\* then the new symtab, then the segments __PAGEZERO, __TEXT, __DATA, __LINKEDIT,
\* __DWARF: 7 loads with a uuid and 6 without, and no dysymtab or other source load.
C6_LoadOrder ==
    Assembled =>
      LET L == newtoc.Loads
          u == IF SrcHas(LoadCmdUuid) THEN 1 ELSE 0
          names == <<"__PAGEZERO", "__TEXT", "__DATA", "__LINKEDIT", "__DWARF">>
      IN /\ Len(L) = 6 + u
         /\ u = 1 => /\ \E k \in 1..Len(exem.Loads) : exem.Loads[k] = L[1]
                     /\ Command(heap[L[1]]) = LoadCmdUuid
         /\ heap[L[u + 1]].kind = "Symtab"
         /\ L[u + 1] = newsymtab
         /\ \A j \in 1..5 : /\ heap[L[u + 1 + j]].kind = "Segment"
                            /\ heap[L[u + 1 + j]].Name = names[j]
         /\ \A k \in 1..Len(L) : heap[L[k]].kind \notin {"Dysymtab", "Dylib"}

\* a finished run on a source that has a uuid and a dylib load
C6_Witness ==
    /\ pc = "done"
    /\ Len(newtoc.Loads) = 7
    /\ SrcHas(LoadCmdDylib)
    /\ SrcHas(LoadCmdDysymtab)

\* the source as main sees it: the File and the loads it points to
SourceImage == [file |-> exem, loads |-> [k \in 1..Len(exem.Loads) |-> heap[exem.Loads[k]]]]

\* C7 synthesis never mutates the source: no step of main changes the source File, its
\* loads or its sections, whatever the order of the segments in the source.
C7_SourceUnchanged == [][(pc \in SynthPcs) => (SourceImage' = SourceImage)]_vars

\* C8 missing segment: a run on a parsed source that lacks one of the five segments
\* ends in the fatal state with a diagnostic naming a missing segment, and no run in
\* the fatal state has made the output directory or written the output file.
C8_MissingSegment ==
    /\ (Ended /\ Parsed /\ SrcMissing # {}) =>
         /\ pc = "fatal"
         /\ diag.kind = "segment"
         /\ diag.name \in SrcMissing
    /\ pc = "fatal" => ~dirmade /\ ~written

\* C9 missing symbol tables: a run on a parsed source without a symtab load, or without
\* a dysymtab load, ends in the fatal state with a diagnostic naming the missing load
\* command and exit code 1.
C9_MissingTables ==
    (Ended /\ Parsed /\ (~SrcHas(LoadCmdSymtab) \/ ~SrcHas(LoadCmdDysymtab))) =>
      /\ pc = "fatal"
      /\ diag.kind = "load"
      /\ diag.name = (IF ~SrcHas(LoadCmdSymtab) THEN "symtab" ELSE "dysymtab")
      /\ exitcode = 1

InvalidMagic == FormatError(0, "invalid magic number", -1)

\* C10 magic detection totality: when the ident bytes read big-endian or little-endian
\* are 0xfeedface or 0xfeedfacf, NewFile takes that byte order, stores that magic and
\* decodes the header words in that order; for every other ident it returns the
\* invalid-magic FormatError at offset 0 and no File.
C10_MagicTotality ==
    LET id == infile.ident
        beOk == id \in {Magic32, Magic64}
        leOk == Reverse(id) \in {Magic32, Magic64}
    IN pc # "NewFile" =>
         IF beOk \/ leOk
         THEN /\ err # InvalidMagic
              /\ pc \in {"NewFile_header", "NewFile_loop"} =>
                   /\ exem.ByteOrder = (IF beOk THEN BigEndian ELSE LittleEndian)
                   /\ exem.Magic = (IF beOk THEN id ELSE Reverse(id))
              /\ pc = "NewFile_loop" =>
                   /\ FieldBytes(exem.ByteOrder, exem.Cpu, 4) = infile.hdr.Cpu
                   /\ FieldBytes(exem.ByteOrder, exem.SubCpu, 4) = infile.hdr.SubCpu
                   /\ FieldBytes(exem.ByteOrder, exem.Type, 4) = infile.hdr.Type
                   /\ FieldBytes(exem.ByteOrder, exem.Ncmd, 4) = infile.hdr.Ncmd
                   /\ FieldBytes(exem.ByteOrder, exem.Cmdsz, 4) = infile.hdr.Cmdsz
                   /\ FieldBytes(exem.ByteOrder, exem.Flags, 4) = infile.hdr.Flags
         ELSE /\ err = InvalidMagic
              /\ exem = NilFile
              /\ pc \in {"NewFile_return", "fatal"}

\* the header of a big-endian 32-bit file is decoded
C10_Witness ==
    /\ pc = "NewFile_loop"
    /\ infile.ident = Magic32
    /\ exem.Ncmd > 0

\* NewFile has returned a File and no error
Returned == pc = "NewFile_return" /\ err = NoErr /\ ~exem.nil

\* the length command k (from 1) of the source file declares
DeclaredLen(k) == infile.cmds[k].siz

\* C11: for every input on which NewFile returns a File, the LoadSize of the
\* returned TOC equals the Cmdsz its header declares.
C11_BlockTotal == Returned => LoadSize(exem, heap) = exem.Cmdsz

\* load k (from 1) of the TOC under construction has a LoadSize other than
\* the length its command declares
Mismatch(k) == LoadSize1(exem, heap[exem.Loads[k]]) # DeclaredLen(k)

\* C12: NewFile never returns a File with a load whose LoadSize differs from
\* the length its command declares in the file: the first such load, as soon
\* as it is stored, ends the parse with the panic "oops".
C12_PerLoad ==
    (~Parsed /\ ~exem.nil) =>
        /\ \A k \in 1..cmdi :
              Mismatch(k) => (k = cmdi /\ pc = "panic" /\ diag.name = "oops")
        /\ Returned => cmdi = Len(exem.Loads)

\* a load after the first did not have its declared length, and the parse stopped
C12_Witness == ~Parsed /\ pc = "panic" /\ diag.name = "oops" /\ cmdi > 1 /\ Mismatch(cmdi)

\* every section in the range of every segment of TOC t carries the segment's name
SectionsContained(t, h) ==
    \A k \in 1..Len(t.Loads) :
        LET g == h[t.Loads[k]]
        IN g.kind = "Segment" =>
             \A j \in (g.Firstsect + 1)..(g.Firstsect + g.Nsect) :
                 j <= Len(t.Sections) /\ t.Sections[j].Seg = g.Name

\* C13: in the TOC NewFile returns, and in the TOC synthesis builds, each
\* section in the index range of a segment has that segment's name as Seg.
C13_SectionContainment ==
    /\ Returned => SectionsContained(exem, heap)
    /\ pc = "main_put" => SectionsContained(newtoc, heap)

\* the number of section headers the first n commands of the source file hold
SectionsBefore(n) ==
    SeqSum([j \in 1..n |->
              IF infile.cmds[j].cmd \in {LoadCmdSegment, LoadCmdSegment64}
              THEN infile.cmds[j].Nsect ELSE 0])

\* the positions of the segment loads of the parsed TOC
SegLoads == {k \in 1..Len(exem.Loads) : heap[exem.Loads[k]].kind = "Segment"}

\* C14: in every File NewFile returns, each segment's Firstsect is the number
\* of sections parsed from the load commands before it, its range ends within
\* the section list, and the ranges of distinct segments are disjoint and
\* follow the order of the load commands.
C14_SegmentRanges ==
    Returned =>
        \A k \in SegLoads :
            LET g == heap[exem.Loads[k]]
            IN /\ g.Firstsect = SectionsBefore(k - 1)
               /\ g.Firstsect + g.Nsect <= Len(exem.Sections)
               /\ \A k2 \in SegLoads :
                     k < k2 => g.Firstsect + g.Nsect <= heap[exem.Loads[k2]].Firstsect

\* a File came back with a segment that has sections and does not start the list
C14_Witness ==
    /\ Returned
    /\ \E k \in SegLoads :
          heap[exem.Loads[k]].Firstsect > 0 /\ heap[exem.Loads[k]].Nsect > 0

\* the loop is about to read a command that the block cannot hold: fewer than 8
\* bytes remain, or the declared length is below 8 or above what remains
TooFewLeft == dat < 8
BadLength == dat >= 8 /\ (DeclaredLen(cmdi + 1) < 8 \/ DeclaredLen(cmdi + 1) > dat)

\* C15: a command read when fewer than 8 bytes of the block remain, or one that
\* declares a length below 8 or above the bytes remaining, makes NewFile return
\* a FormatError and no File; every command taken consumes exactly its
\* declared length, so the count of remaining bytes never becomes negative.
C15_CommandLength ==
    [][ /\ (InLoop /\ TooFewLeft) =>
              /\ pc' = "NewFile_return" /\ exem' = NilFile
              /\ err' = FormatError(offset, "command block too small", -1)
        /\ (InLoop /\ BadLength) =>
              /\ pc' = "NewFile_return" /\ exem' = NilFile
              /\ err' = FormatError(offset, "invalid command block size", -1)
        /\ (InLoop /\ cmdi' = cmdi + 1) => dat' = dat - DeclaredLen(cmdi + 1)
        /\ dat' >= 0 ]_vars

\* a command after the first was refused for its length
C15_Witness ==
    /\ pc = "NewFile_return" /\ cmdi > 0 /\ cmdi < DeclaredNcmd
    /\ exem = NilFile
    /\ err = FormatError(offset, "invalid command block size", -1)

\* the symbol entries of source command w whose name offset is not below Strsize
OutOfRange(w) == {k \in 1..w.Nsyms : w.symdat[k].Name >= w.Strsize}

\* C16: when the symbol table command that NewFile reads has an entry whose
\* string-table offset is Strsize or more, NewFile returns the FormatError
\* "invalid name in symbol table", carrying that offset, and no File.
C16_NameOffset ==
    [][ ( /\ InLoop /\ ~TooFewLeft /\ ~BadLength
          /\ infile.cmds[cmdi + 1].cmd = LoadCmdSymtab
          /\ DeclaredLen(cmdi + 1) >= SizeofSymtabCmd
          /\ OutOfRange(infile.cmds[cmdi + 1]) # {} ) =>
        LET w == infile.cmds[cmdi + 1]
        IN /\ pc' = "NewFile_return"
           /\ exem' = NilFile
           /\ err'.msg = "invalid name in symbol table"
           /\ err'.val = w.symdat[SetMin(OutOfRange(w))].Name ]_vars

\* the section of an UncompressedSize call: whether its name begins with "__z",
\* and, of a view of 12 bytes or more, the tag and the big-endian length it
\* starts with (the four high bytes of the length are 0 in every call)
CalledSection == infile.sect
NameBeginsZ ==
    LET n == CalledSection.Name
    IN Len(n) >= 3 /\ n[1] = 95 /\ n[2] = 95 /\ n[3] = 122
ViewTag == <<CalledSection.sr.head[1], CalledSection.sr.head[2],
             CalledSection.sr.head[3], CalledSection.sr.head[4]>>
ViewLength ==
    LET b == CalledSection.sr.head
    IN b[12] + 256 * b[11] + 65536 * b[10] + 16777216 * b[9]

\* C17: Section.UncompressedSize returns the raw Size of a section whose name
\* does not begin with "__z"; of a "__z" section whose view holds 12 bytes or
\* more it returns 12 + N when the view starts with "ZLIB" (N the big-endian
\* length in bytes 4..11) and the raw Size otherwise; on a "__z" section whose
\* view holds fewer than 12 bytes the call is fatal and returns no size.
C17_UncompressedSize ==
    (infile.fn = "Section.UncompressedSize" /\ pc # "call") =>
        IF ~NameBeginsZ
        THEN pc = "return" /\ offset = CalledSection.Size
        ELSE IF CalledSection.Size >= 12
        THEN /\ pc = "return"
             /\ offset = IF ViewTag = <<90, 76, 73, 66>> THEN 12 + ViewLength
                          ELSE CalledSection.Size
        ELSE /\ pc = "panic"
             /\ diag = [kind |-> "panic", name |-> "Malformed object file"]
             /\ offset = 0

\* a "__z" section of 200 bytes that starts with "ZLIB" and the length 5000
C17_Witness ==
    /\ infile.fn = "Section.UncompressedSize" /\ pc = "return"
    /\ NameBeginsZ /\ CalledSection.Size = 200
    /\ ViewTag = <<90, 76, 73, 66>> /\ ViewLength = 5000
    /\ offset = 5012

\* the ends (Offset + Filesz) of the segment loads of the receiving TOC
SegmentEnds ==
    { heap[exem.Loads[k]].Offset + heap[exem.Loads[k]].Filesz :
        k \in {j \in 1..Len(exem.Loads) : heap[exem.Loads[j]].kind = "Segment"} }

C19_DerivedCopy ==
    (infile.fn = "FileTOC.DerivedCopy" /\ pc = "return") =>
        /\ ~newtoc.nil
        /\ newtoc.Ncmd = 0 /\ newtoc.Cmdsz = 0
        /\ newtoc.Type = infile.Type /\ newtoc.Flags = infile.Flags
        /\ newtoc.Magic = infile.toc.Magic
        /\ newtoc.Cpu = infile.toc.Cpu /\ newtoc.SubCpu = infile.toc.SubCpu
        /\ newtoc.ByteOrder = infile.toc.ByteOrder
        /\ newtoc.Loads = << >> /\ newtoc.Sections = << >>
        /\ exem = infile.toc /\ heap = infile.loads

\* a copy of type dSYM was derived from an executable's TOC that has loads and
\* sections
C19_Witness ==
    /\ infile.fn = "FileTOC.DerivedCopy" /\ pc = "return"
    /\ infile.Type = TypeDsym /\ infile.Flags = 0
    /\ exem.Type = TypeExec /\ exem.Flags # 0
    /\ Len(exem.Loads) > 1 /\ Len(exem.Sections) > 0

\* the uncompressed size of a section header x of the source file: 12 + N for a
\* "__z" name whose payload of 12 bytes or more starts with "ZLIB" and the 8-byte
\* big-endian N, the raw Size otherwise
SrcUncompressed(x) ==
    IF /\ Len(x.Name) >= 3 /\ x.Name[1] = 95 /\ x.Name[2] = 95 /\ x.Name[3] = 122
       /\ x.Size >= 12
       /\ <<x.head[1], x.head[2], x.head[3], x.head[4]>> = <<90, 76, 73, 66>>
    THEN 12 + x.head[12] + 256 * x.head[11] + 65536 * x.head[10] + 16777216 * x.head[9]
    ELSE x.Size

\* the DWARF loop is running or just over, with n sections laid out
InDwarfLayout == pc = "main_dwarfloop"
LaidOut == i - heap[dwarf].Firstsect

TextDataAdded ==
    pc \in {"main_newlinkedit", "main_newdwarf", "main_dwarfloop", "main_writesyms",
            "main_writestrings", "main_writedwarf", "main_put", "main_output",
            "main_writefile", "done"}

\* new section s is the zeroed copy of section header w of the source file
ZeroedCopyOf(s, w) ==
    /\ s.Offset = 0 /\ s.Reloff = 0 /\ s.Nreloc = 0
    /\ s.Name = w.Name /\ s.Seg = w.Seg /\ s.Addr = w.Addr /\ s.Size = w.Size
    /\ s.Align = w.Align /\ s.Flags = w.Flags
    /\ s.Reserved1 = w.Reserve1 /\ s.Reserved2 = w.Reserve2
    /\ s.Reserved3 = (IF is64bit THEN w.Reserve3 ELSE 0)

\* new segment id is the zeroed copy of the source segment name, first at section
\* index first of the new TOC
ZeroedSegment(id, name, first) ==
    LET g == heap[id]
        src == SrcSeg(name).sects
    IN /\ \E k \in 1..Len(newtoc.Loads) : newtoc.Loads[k] = id
       /\ g.Name = name /\ g.Offset = 0 /\ g.Filesz = 0
       /\ g.Nsect = Len(src)
       /\ g.Firstsect = first
       /\ first + Len(src) <= Len(newtoc.Sections)
       /\ \A k \in 1..Len(src) : ZeroedCopyOf(newtoc.Sections[first + k], src[k])

C22_OpcodeCarried ==
    Returned =>
        \A k \in 1..Len(exem.Loads) : Command(heap[exem.Loads[k]]) = infile.cmds[k].cmd

\* the buffer has been allocated (its length FileSize(newtoc) is never 0)
Allocated == buffer.len > 0

\* the number of bytes PutUncompressedData writes for section header x of the source
\* file: the declared length of a compressed section, the raw Size otherwise
SrcPayload(x) ==
    IF SrcUncompressed(x) = x.Size THEN x.Size ELSE SrcUncompressed(x) - 12

\* C23: every byte index synthesis writes lies inside the buffer of length
\* FileSize(newtoc): the header and load block, the symbol entries from 4096,
\* the string table [Stroff, Stroff + Strsize) and each DWARF section's
\* uncompressed bytes from its new Offset, for every number and length of
\* retained symbols and also when __DWARF has no sections; no write fails.
C23_BufferBounds ==
    Allocated =>
      LET st == heap[newsymtab]
          nd == heap[newdwarf]
          src == SrcSeg("__DWARF").sects
          sz == IF infile.ident \in {Magic64, Reverse(Magic64)} THEN 16 ELSE 12
      IN /\ buffer.len = FileSize(newtoc, heap)
         /\ HdrSize(newtoc) + LoadSize(newtoc, heap) <= buffer.len
         /\ 4096 + SrcCmd(LoadCmdDysymtab).Nextdefsym * sz <= buffer.len
         /\ st.Stroff + st.Strsize <= buffer.len
         /\ \A k \in 1..Len(src) :
               newtoc.Sections[nd.Firstsect + k].Offset + SrcPayload(src[k]) <= buffer.len
         /\ ~(pc = "panic" /\ diag.name = "index out of range")

\* half-open byte ranges <<from, to>>: disjointness (an empty range meets nothing)
\* and containment
Disjoint(a, b) == a[1] >= a[2] \/ b[1] >= b[2] \/ a[2] <= b[1] \/ b[2] <= a[1]
Inside(a, b) == b[1] <= a[1] /\ a[2] <= b[2]

\* the regions of the synthesised image: header and loads, symbol array, string
\* table, then the output __DWARF sections
ImageRegions ==
    LET st == heap[newsymtab]
        sz == IF infile.ident \in {Magic64, Reverse(Magic64)} THEN 16 ELSE 12
    IN << <<0, HdrSize(newtoc) + LoadSize(newtoc, heap)>>,
          <<st.Symoff, st.Symoff + st.Nsyms * sz>>,
          <<st.Stroff, st.Stroff + st.Strsize>> >>
       \o [k \in 1..Len(OutDwarfSections) |->
             <<OutDwarfSections[k].Offset,
               OutDwarfSections[k].Offset + OutDwarfSections[k].Size>>]

\* C24: in the synthesised image the header and load block, the symbol array,
\* the string table and the file ranges of the output __DWARF sections are
\* pairwise disjoint; the symbol array and the string table lie inside the
\* new __LINKEDIT's file range and every __DWARF section range inside the new
\* __DWARF's file range.
C24_RegionsDisjoint ==
    Built =>
      LET R == ImageRegions
          le == <<heap[newlinkedit].Offset, heap[newlinkedit].Offset + heap[newlinkedit].Filesz>>
          dw == <<heap[newdwarf].Offset, heap[newdwarf].Offset + heap[newdwarf].Filesz>>
      IN /\ \A a, b \in 1..Len(R) : a < b => Disjoint(R[a], R[b])
         /\ Inside(R[2], le) /\ Inside(R[3], le)
         /\ \A k \in 4..Len(R) : Inside(R[k], dw)

\* C25: every index Iextdefsym + i, 0 <= i < Nextdefsym, with which synthesis
\* reads the source symbol array is below the number of parsed symbols; the
\* symbol loop never reads past the end of the array.
C25_SymbolIndexRange ==
    /\ (pc = "main_symloop" /\ i < SrcCmd(LoadCmdDysymtab).Nextdefsym) =>
          SrcCmd(LoadCmdDysymtab).Iextdefsym + i < Len(heap[symtab].Syms)
    /\ ~(pc = "panic" /\ diag.name = "index out of range" /\ ~Allocated)

====
